---- MODULE Spec2Model ----
(***************************************************************************)
(* Model of wiki.py: get_random_wikipedia_article (the fetcher) and        *)
(* create_wiki_files (the driver loop that turns fetched articles into     *)
(* files).  The remote source, the random generator and the filesystem are *)
(* the environment: every lookup, every open and every write may succeed   *)
(* or fail.  Strings are sequences of one-character strings.               *)
(***************************************************************************)
EXTENDS Integers, Sequences, FiniteSets, TLC

(* ------------------------------ bounds --------------------------------- *)
\* largest num_files of a run against the varied source
MaxFiles == 2
\* num_files of the runs against the uniform source: LongFiles, LongFiles + 1
LongFiles == 10
\* iterations the environment lets fail in a run (a fetch returning None, an IOError)
MaxExtra == 2
\* longest of the short titles spelled over Alphabet
MaxTitleLen == 1

(* -------------------------- program constants -------------------------- *)
\* base_name is cut to its first 30 characters
BaseLimit == 30
\* the index is formatted with :03d
IndexWidth == 3
\* random.choices(..., k=4)
SuffixLen == 4
\* a progress line every 10 files
ProgressEvery == 10
\* random.randint(4, 7)
MinSentences == 4
MaxSentences == 7

(* ------------------------------ strings -------------------------------- *)
None == <<>>

DigitChars == <<"0", "1", "2", "3", "4", "5", "6", "7", "8", "9">>

RECURSIVE Decimal(_)
\* str(n) for n >= 0
Decimal(n) == IF n < 10 THEN <<DigitChars[n + 1]>>
              ELSE Append(Decimal(n \div 10), DigitChars[(n % 10) + 1])

RECURSIVE PadLeft(_, _)
PadLeft(s, w) == IF Len(s) >= w THEN s ELSE PadLeft(<<"0">> \o s, w)

\* a two-digit index: f"{n:02d}"
FormatIndexTwoDigits(n) == PadLeft(Decimal(n), IndexWidth - 1)

\* f"{n:03d}"
FormatIndex(n) == PadLeft(Decimal(n), IndexWidth)

\* s.replace(old, new) for one-character strings old and new
ReplaceChar(s, old, new) == [i \in 1..Len(s) |-> IF s[i] = old THEN new ELSE s[i]]

\* s.replace(old, '') for a one-character string old
RemoveChar(s, old) == SelectSeq(s, LAMBDA c : c # old)

\* s[:n]
Slice(s, n) == IF Len(s) <= n THEN s ELSE SubSeq(s, 1, n)

\* the last replace is missing: '/' stays in the name
BaseNameKeepsSlash(topic) ==
    Slice(RemoveChar(RemoveChar(ReplaceChar(topic, " ", "_"), "("), ")"), BaseLimit)

\* topic.replace(' ', '_').replace('(', '').replace(')', '').replace('/', '_')[:30]
BaseName(topic) ==
    Slice(ReplaceChar(RemoveChar(RemoveChar(ReplaceChar(topic, " ", "_"), "("), ")"),
                      "/", "_"), BaseLimit)

\* the name without the index: f"{base_name}_{unique_id}.txt"
FileNameNoIndex(index, topic, unique_id) ==
    BaseName(topic) \o <<"_">> \o unique_id \o <<".", "t", "x", "t">>

\* f"{files_created:03d}_{base_name}_{unique_id}.txt" (inside output_folder)
FileName(index, topic, unique_id) ==
    FormatIndex(index) \o <<"_">> \o BaseName(topic) \o <<"_">> \o unique_id
        \o <<".", "t", "x", "t">>

(* ---------------------------- environment ------------------------------ *)
TitleRome == <<"R", "o", "m", "e">>
TitlePunct == <<"A", " ", "(", "b", ")", "/", "c">>
TitleLong == [i \in 1..(BaseLimit + 2) |-> IF i % 8 = 0 THEN " " ELSE "x"]

SummaryShort == <<"s">>
SummaryLong == <<"t", "u">>
SummaryOld == <<"o", "l", "d">>

SuffixA == <<"0", "0", "0", "0">>
SuffixB == <<"4", "2", "4", "2">>

\* what the remote source and the random generator can deliver in a run
VariedSource == [randoms |-> {TitleRome},
                 titles |-> {TitleRome, TitlePunct},
                 summaries |-> {SummaryLong},
                 suffixes |-> {SuffixA, SuffixB},
                 failures |-> MaxExtra]
UniformSource == [randoms |-> {TitleLong},
                  titles |-> {TitleLong},
                  summaries |-> {SummaryShort},
                  suffixes |-> {SuffixA},
                  failures |-> MaxExtra]

\* titles for the file names: every short string over the characters that line
\* 61 treats specially, and long ones around the cut at BaseLimit
Alphabet == {"a", " ", "(", ")", "/"}
ShortTitles == UNION {[1..n -> Alphabet] : n \in 1..MaxTitleLen}
LongTitles == {[i \in 1..n |-> IF i % 3 = 0 THEN c ELSE "x"] :
                  n \in {BaseLimit, BaseLimit + 1, BaseLimit + 16}, c \in Alphabet}
NameSource == [randoms |-> {TitleRome},
               titles |-> ShortTitles \cup LongTitles \cup {TitleRome, TitlePunct},
               summaries |-> {SummaryShort},
               suffixes |-> {SuffixB},
               failures |-> 1]

\* candidate lists a DisambiguationError can carry (e.options)
OptionLists == {<<>>, <<TitlePunct, TitleRome>>, <<TitleRome>>}

\* outcome of one call of the wikipedia library
Ok(v) == [kind |-> "ok", val |-> v]
PageError == [kind |-> "PageError", val |-> None]
Disambiguation(opts) == [kind |-> "DisambiguationError", val |-> opts]
OtherError == [kind |-> "Exception", val |-> None]
Failures == {PageError, OtherError} \cup {Disambiguation(o) : o \in OptionLists}

\* outcome of open() and of f.write()/close
IoOutcomes == {"ok", "IOError", "ValueError"}

\* the output directory a run can find: absent, empty, or left by an earlier run
OldFile == FileName(1, TitleRome, SuffixA)
EmptyDir == [n \in {} |-> None]
InitialDirs == {[exists |-> FALSE, files |-> EmptyDir],
                [exists |-> TRUE, files |-> EmptyDir],
                [exists |-> TRUE, files |-> [n \in {OldFile} |-> SummaryOld]]}

(* ------------------------------- state --------------------------------- *)
VARIABLES
    env,            \* what the source and the random generator deliver
    saturate,       \* counters of failures stop at their cap (unbounded runs)
    found,          \* the output folder as the run found it
    pc,             \* position in create_wiki_files / get_random_wikipedia_article
    dir_exists,     \* os.path.exists(output_folder)
    fs,             \* files of output_folder: name -> content
    num_files, files_created, attempts,
    num_sentences, random_title, page_title, calls, result,
    e,              \* the DisambiguationError caught at line 22: <<>> or <<e.options>>
    topic, logical_content, file_name,
    progress,       \* progress lines printed: <<files_created, topic>>
    report,         \* final line: <<files_created, attempts>> or None
    raised,         \* where an exception left create_wiki_files, or "no"
    fetch_fails,    \* fetches that returned None
    write_fails,    \* opens/writes that raised
    late_fail,      \* a fetch returned None after one had returned an article
    written,        \* names of the files written successfully, in order
    topics,         \* titles of the files written successfully, in order
    tenth_failed,   \* an IOError hit a file whose index is a multiple of ProgressEvery
    touched         \* names this run opened successfully

driver == <<num_files, files_created, attempts>>
fetcher == <<num_sentences, random_title, page_title, e, calls, result>>
article == <<topic, logical_content, file_name>>
disk == <<dir_exists, fs, touched>>
history == <<fetch_fails, write_fails, late_fail, written, topics, tenth_failed>>
output == <<progress, report>>
vars == <<env, saturate, found, pc, raised, driver, fetcher, article, disk, history, output>>

\* x += 1; in an unbounded run the count stops at cap
Inc(x, cap) == IF saturate /\ x >= cap THEN x ELSE x + 1

Setup(sat, runs) ==
    /\ saturate = sat
    /\ \E r \in runs : env = r[1] /\ num_files = r[2]
    /\ found \in InitialDirs
    /\ dir_exists = found.exists /\ fs = found.files
    /\ pc = "start"
    /\ files_created = 0 /\ attempts = 0
    /\ num_sentences = 0 /\ random_title = None /\ page_title = None
    /\ e = <<>> /\ calls = <<>> /\ result = None
    /\ topic = None /\ logical_content = None /\ file_name = None
    /\ progress = <<>> /\ report = None
    /\ raised = "no"
    /\ fetch_fails = 0 /\ write_fails = 0 /\ late_fail = FALSE
    /\ written = <<>> /\ topics = <<>> /\ tenth_failed = FALSE /\ touched = {}

Init == Setup(FALSE, {<<VariedSource, n>> : n \in 1..MaxFiles}
                     \cup {<<UniformSource, n>> : n \in LongFiles..(LongFiles + 1)})

\* the environment may make one more iteration fail
MayFail == saturate \/ fetch_fails + write_fails < env.failures

\* the outcomes of a lookup of the first try: an ambiguity leads to the retry
FirstTry(values) ==
    {o \in {Ok(v) : v \in values} \cup Failures :
        o.kind \in {"ok", "DisambiguationError"} \/ MayFail}

\* the outcomes of a lookup of the retry: every exception ends the call with None
SecondTry(values) ==
    {o \in {Ok(v) : v \in values} \cup Failures : o.kind = "ok" \/ MayFail}

\* the outcomes of open and of write: an IOError makes the iteration fail
IoTry == {o \in IoOutcomes : o # "IOError" \/ MayFail}

(* ------------------------ create_wiki_files: entry ---------------------- *)
\* an exception leaves create_wiki_files
Raise(where) == pc' = "raised" /\ raised' = where

\* lines 37-43: create the output folder when it is absent
MakeDirs ==
    /\ pc = "start"
    /\ IF dir_exists
       THEN /\ pc' = "loop"
            /\ UNCHANGED <<raised, disk>>
       ELSE \E made \in BOOLEAN :
            /\ IF made THEN dir_exists' = TRUE /\ pc' = "loop" /\ UNCHANGED raised
                       ELSE UNCHANGED dir_exists /\ Raise("makedirs")
            /\ UNCHANGED <<fs, touched>>
    /\ UNCHANGED <<env, saturate, found, driver, fetcher, article, history, output>>

\* the loop condition off by one: while files_created <= num_files
LoopConditionInclusive == files_created <= num_files

\* line 46: while files_created < num_files
LoopCondition == files_created < num_files

\* the attempt is not counted
CountAttemptMissing == attempts' = attempts

\* the attempt is counted twice
CountAttemptTwice == attempts' = Inc(attempts, num_files + MaxExtra) + 1

\* line 47: attempts += 1
CountAttempt == attempts' = Inc(attempts, num_files + MaxExtra)

\* an upper bound off by one: random.randint(4, 8)
SentenceChoicesWide == MinSentences..(MaxSentences + 1)

\* line 50: random.randint(4, 7)
SentenceChoices == MinSentences..MaxSentences

\* lines 46-50: the loop condition holds; count the attempt and call the fetcher
LoopIterate ==
    /\ pc = "loop"
    /\ LoopCondition
    /\ CountAttempt
    /\ \E n \in SentenceChoices : num_sentences' = n
    /\ random_title' = None /\ page_title' = None /\ e' = <<>>
    /\ calls' = <<>> /\ result' = None
    /\ pc' = "random"
    /\ UNCHANGED <<env, saturate, found, raised, num_files, files_created, article, disk,
                   history, output>>

\* lines 46, 76: the loop condition fails; print the final report
LoopExit ==
    /\ pc = "loop"
    /\ ~LoopCondition
    /\ report' = <<files_created, attempts>>
    /\ pc' = "done"
    /\ UNCHANGED <<env, saturate, found, raised, driver, fetcher, article, disk, history,
                   progress>>

(* --------------------- get_random_wikipedia_article -------------------- *)
\* one request to the wikipedia library: where, for what, and how it ended
Call(line, title, sentences, o) ==
    [line |-> line, title |-> title, sentences |-> sentences, outcome |-> o.kind]

\* return r to create_wiki_files
Return(r) == result' = r /\ pc' = "returned" /\ UNCHANGED raised

\* lines 19-33: the except clauses of the outer try, for the exception o
Except(o) ==
    CASE o.kind = "PageError" -> Return(None) /\ UNCHANGED e
      [] o.kind = "DisambiguationError" ->
            /\ e' = <<o.val>>
            \* line 24 evaluates e.options[0] outside the inner try
            /\ IF o.val = <<>>
               THEN Raise("fetch") /\ UNCHANGED result
               ELSE pc' = "retry_page" /\ UNCHANGED <<result, raised>>
      [] OTHER -> Return(None) /\ UNCHANGED e

\* line 12: wikipedia.random(pages=1)
LookupRandom ==
    /\ pc = "random"
    /\ \E o \in FirstTry(env.randoms) :
         /\ calls' = Append(calls, Call(12, None, 0, o))
         /\ IF o.kind = "ok"
            THEN random_title' = o.val /\ pc' = "page" /\ UNCHANGED <<result, e, raised>>
            ELSE Except(o) /\ UNCHANGED random_title
    /\ UNCHANGED <<env, saturate, found, driver, num_sentences, page_title, article, disk,
                   history, output>>

\* line 15: wikipedia.page(random_title, auto_suggest=False, redirect=True)
LookupPage ==
    /\ pc = "page"
    /\ \E o \in FirstTry(env.titles) :
         /\ calls' = Append(calls, Call(15, random_title, 0, o))
         /\ IF o.kind = "ok"
            THEN page_title' = o.val /\ pc' = "summary" /\ UNCHANGED <<result, e, raised>>
            ELSE Except(o) /\ UNCHANGED page_title
    /\ UNCHANGED <<env, saturate, found, driver, num_sentences, random_title, article, disk,
                   history, output>>

\* lines 16-18: wikipedia.summary(random_title, sentences=num_sentences)
LookupSummary ==
    /\ pc = "summary"
    /\ \E o \in FirstTry(env.summaries) :
         /\ calls' = Append(calls, Call(16, random_title, num_sentences, o))
         /\ IF o.kind = "ok"
            THEN Return(<<page_title, o.val>>) /\ UNCHANGED e
            ELSE Except(o)
    /\ UNCHANGED <<env, saturate, found, driver, num_sentences, random_title, page_title,
                   article, disk, history, output>>

\* line 26: wikipedia.page(e.options[0], ...); any exception returns None (29-30)
RetryPage ==
    /\ pc = "retry_page"
    /\ \E o \in SecondTry(env.titles) :
         /\ calls' = Append(calls, Call(26, e[1][1], 0, o))
         /\ IF o.kind = "ok"
            THEN page_title' = o.val /\ pc' = "retry_summary" /\ UNCHANGED <<result, raised>>
            ELSE Return(None) /\ UNCHANGED page_title
    /\ UNCHANGED <<env, saturate, found, driver, num_sentences, random_title, e,
                   article, disk, history, output>>

\* lines 27-30: wikipedia.summary(e.options[0], sentences=num_sentences)
RetrySummary ==
    /\ pc = "retry_summary"
    /\ \E o \in SecondTry(env.summaries) :
         /\ calls' = Append(calls, Call(27, e[1][1], num_sentences, o))
         /\ IF o.kind = "ok" THEN Return(<<page_title, o.val>>) ELSE Return(None)
    /\ UNCHANGED <<env, saturate, found, driver, num_sentences, random_title, page_title,
                   e, article, disk, history, output>>

(* ---------------------- create_wiki_files: the body -------------------- *)
\* the names of the call that returned are gone
ForgetCall ==
    /\ num_sentences' = 0 /\ random_title' = None /\ page_title' = None
    /\ e' = <<>> /\ calls' = <<>> /\ result' = None

ForgetArticle == topic' = None /\ logical_content' = None /\ file_name' = None

\* fs with content c under name n
WithFile(n, c) == [m \in DOMAIN fs \cup {n} |-> IF m = n THEN c ELSE fs[m]]

\* the file opened in mode 'a': an existing file keeps its content
OpenForAppending(n) == IF n \in DOMAIN fs THEN fs ELSE WithFile(n, <<>>)

\* line 65: the files once open(n, 'w') has succeeded: n exists and is empty
OpenForWriting(n) == WithFile(n, <<>>)

\* line 66: the files once f.write(c) and the close have succeeded on the open file n
Written(n, c) == WithFile(n, fs[n] \o c)

\* None handled like a failed write: the count is taken back
SkipArticleUncounts ==
    /\ pc = "returned"
    /\ result = None
    /\ files_created' = files_created - 1
    /\ fetch_fails' = Inc(fetch_fails, MaxExtra)
    /\ late_fail' = (late_fail \/ Len(written) + write_fails > 0)
    /\ ForgetCall
    /\ pc' = "loop"
    /\ UNCHANGED <<env, saturate, found, raised, num_files, attempts, article, disk,
                   write_fails, written, topics, tenth_failed, output>>

\* lines 53-54: the fetcher returned None; try another article
SkipArticle ==
    /\ pc = "returned"
    /\ result = None
    /\ fetch_fails' = Inc(fetch_fails, MaxExtra)
    /\ late_fail' = (late_fail \/ Len(written) + write_fails > 0)
    /\ ForgetCall
    /\ pc' = "loop"
    /\ UNCHANGED <<env, saturate, found, raised, driver, article, disk, write_fails, written,
                   topics, tenth_failed, output>>

\* lines 56-62: count the article and build the file name
NameArticle ==
    /\ pc = "returned"
    /\ result # None
    /\ topic' = result[1]
    /\ logical_content' = result[2]
    /\ files_created' = files_created + 1
    /\ \E unique_id \in env.suffixes :
         file_name' = FileName(files_created + 1, result[1], unique_id)
    /\ ForgetCall
    /\ pc' = "open"
    /\ UNCHANGED <<env, saturate, found, raised, num_files, attempts, disk, history, output>>

\* the handler without line 74: the failed file stays counted
ExceptIOErrorKeepsCount ==
    /\ files_created' = files_created
    /\ write_fails' = Inc(write_fails, MaxExtra)
    /\ tenth_failed' = (tenth_failed \/ files_created % ProgressEvery = 0)
    /\ ForgetArticle
    /\ pc' = "loop"
    /\ UNCHANGED raised

\* lines 72-74: except IOError
ExceptIOError ==
    /\ files_created' = files_created - 1
    /\ write_fails' = Inc(write_fails, MaxExtra)
    /\ tenth_failed' = (tenth_failed \/ files_created % ProgressEvery = 0)
    /\ ForgetArticle
    /\ pc' = "loop"
    /\ UNCHANGED raised

\* a progress line for the first file and every 10th after it
ProgressAfterWriteFromFirst ==
    IF (files_created - 1) % ProgressEvery = 0
    THEN Append(progress, <<files_created, topic>>)
    ELSE progress

\* lines 69-70: the progress lines once the file is written
ProgressAfterWrite ==
    IF files_created % ProgressEvery = 0
    THEN Append(progress, <<files_created, topic>>)
    ELSE progress

\* line 65: open(file_name, 'w', encoding='utf-8')
OpenFile ==
    /\ pc = "open"
    /\ \E o \in IoTry :
         CASE o = "ok" ->
                /\ fs' = OpenForWriting(file_name)
                /\ touched' = touched \cup {file_name}
                /\ pc' = "write"
                /\ UNCHANGED <<raised, files_created, write_fails, tenth_failed, article>>
           [] o = "IOError" ->
                /\ ExceptIOError
                /\ UNCHANGED <<fs, touched>>
           [] OTHER ->
                /\ Raise("open")
                /\ write_fails' = Inc(write_fails, MaxExtra)
                /\ UNCHANGED <<fs, touched, files_created, tenth_failed, article>>
    /\ UNCHANGED <<env, saturate, found, num_files, attempts, fetcher, dir_exists,
                   fetch_fails, late_fail, written, topics, output>>

\* lines 66-70: f.write(logical_content), close, progress line
WriteFile ==
    /\ pc = "write"
    /\ \E o \in IoTry :
         CASE o = "ok" ->
                /\ fs' = Written(file_name, logical_content)
                /\ written' = Append(written, file_name)
                /\ topics' = Append(topics, topic)
                /\ progress' = ProgressAfterWrite
                /\ ForgetArticle
                /\ pc' = "loop"
                /\ UNCHANGED <<raised, files_created, write_fails, tenth_failed>>
           [] o = "IOError" ->
                \* part of the content may have reached the file
                /\ \E k \in 0..(Len(logical_content) - 1) :
                     fs' = Written(file_name, SubSeq(logical_content, 1, k))
                /\ ExceptIOError
                /\ UNCHANGED <<written, topics, progress>>
           [] OTHER ->
                /\ Raise("write")
                /\ write_fails' = Inc(write_fails, MaxExtra)
                /\ UNCHANGED <<fs, files_created, article, written, topics, tenth_failed,
                               progress>>
    /\ UNCHANGED <<env, saturate, found, num_files, attempts, fetcher, dir_exists, touched,
                   fetch_fails, late_fail, report>>

(* --------------------------- specifications ---------------------------- *)
Next ==
    \/ MakeDirs
    \/ LoopIterate
    \/ LoopExit
    \/ LookupRandom
    \/ LookupPage
    \/ LookupSummary
    \/ RetryPage
    \/ RetrySummary
    \/ SkipArticle
    \/ NameArticle
    \/ OpenFile
    \/ WriteFile

Spec == Init /\ [][Next]_vars

\* runs of any length against the uniform source; the program keeps stepping
InitLive == Setup(TRUE, {<<UniformSource, n>> : n \in 1..MaxFiles})
LiveSpec == InitLive /\ [][Next]_vars /\ WF_vars(Next)

\* one-file runs over the titles of NameSource
InitNames == Setup(FALSE, {<<NameSource, 1>>})
NamesSpec == InitNames /\ [][Next]_vars

TypeOK ==
    /\ pc \in {"start", "loop", "random", "page", "summary", "retry_page",
               "retry_summary", "returned", "open", "write", "done", "raised"}
    /\ files_created \in 0..(num_files + 1)
    /\ attempts \in Nat
    /\ raised \in {"no", "makedirs", "fetch", "open", "write"}

(* ------------------------- reading a file name ------------------------- *)
Range(f) == {f[i] : i \in DOMAIN f}

\* the characters of name before its first underscore
IndexField(name) ==
    LET k == CHOOSE i \in 1..Len(name) :
                 name[i] = "_" /\ \A j \in 1..(i - 1) : name[j] # "_"
    IN SubSeq(name, 1, k - 1)

IsDigit(c) == \E d \in 1..10 : DigitChars[d] = c
DigitValue(c) == (CHOOSE d \in 1..10 : DigitChars[d] = c) - 1

RECURSIVE ParseDecimal(_)
\* the number a string of digits denotes
ParseDecimal(s) ==
    IF s = <<>> THEN 0
    ELSE 10 * ParseDecimal(SubSeq(s, 1, Len(s) - 1)) + DigitValue(s[Len(s)])

\* d is n in decimal, filled with zeros on the left up to IndexWidth digits
RendersIndex(d, n) ==
    /\ \A i \in 1..Len(d) : IsDigit(d[i])
    /\ ParseDecimal(d) = n
    /\ Len(d) >= IndexWidth
    /\ Len(d) > IndexWidth => d[1] # "0"

(* ------------------------------- claims -------------------------------- *)

\* C1: when every fetch returns an article and every write succeeds, the run
\* ends with exactly num_files files written, and the i-th file written carries
\* the index i, in decimal with at least 3 digits, zero-padded.
C1_AllSucceedWritesIndexedFiles ==
    (fetch_fails = 0 /\ write_fails = 0) =>
        /\ \A i \in 1..Len(written) : RendersIndex(IndexField(written[i]), i)
        /\ pc = "done" =>
              /\ Len(written) = num_files
              /\ touched = Range(written)
              /\ Cardinality(touched) = num_files
              /\ touched \subseteq DOMAIN fs

\* a run without any failure has written a file with a two-digit index
C1_Witness ==
    /\ pc = "done" /\ fetch_fails = 0 /\ write_fails = 0
    /\ num_files >= LongFiles
    /\ Len(written) = num_files

\* C2: a failure of open or write, of whatever kind, leaves files_created at
\* the value it had at the start of the iteration and the loop goes on; the run
\* still ends with files_created = num_files.
C2_WriteFailureKeepsRunning ==
    /\ [][write_fails' # write_fails =>
            (files_created' = Len(written) /\ pc' = "loop")]_vars
    /\ [](pc = "done" => files_created = num_files)

\* C3: get_random_wikipedia_article never raises: every call ends by returning
\* a (title, summary) pair or None.
C3_FetcherNeverRaises ==
    /\ raised # "fetch"
    /\ pc = "returned" =>
          \/ result = None
          \/ result \in {<<t, x>> : t \in env.titles, x \in env.summaries}

\* an iteration starts: the fetcher is called
IterationStarts == pc = "random"
\* the fetcher has returned an article
FetchedArticle == pc = "returned" /\ result # None
\* the step that completes the file of an iteration
WroteFile == WriteFile /\ written' # written
\* create_wiki_files is over: the loop was left, or an exception escaped
Ended == pc \in {"done", "raised"}

\* C4 as stated: if fetches keep returning an article for as long as iterations
\* start, the loop eventually exits, and it exits with files_created = num_files.
C4_FetchSuccessSuffices ==
    /\ (([]<>IterationStarts) => ([]<>FetchedArticle)) => <>Ended
    /\ [](pc = "done" => files_created = num_files)

\* C4 amended: if iterations keep ending in a written file for as long as
\* iterations start, create_wiki_files eventually ends; it leaves the loop
\* through the loop condition only with files_created = num_files.
C4_WrittenFilesSuffice ==
    /\ (([]<>IterationStarts) => ([]<><<WroteFile>>_vars)) => <>Ended
    /\ [](pc = "done" => files_created = num_files)

\* the loop was left after fetches and writes had failed
C4_Witness ==
    /\ pc = "done" /\ files_created = num_files
    /\ fetch_fails > 0 /\ write_fails > 0

\* C5: when the first K fetches return None, every later fetch returns an
\* article and every write succeeds, the run ends with num_files files written
\* and reports at least num_files + K attempts.
C5_LeadingFetchFailures ==
    (pc = "done" /\ write_fails = 0 /\ ~late_fail) =>
        /\ Len(written) = num_files
        /\ Cardinality(Range(written)) = num_files
        /\ Range(written) \subseteq DOMAIN fs
        /\ report = <<num_files, attempts>>
        /\ report[2] >= num_files + fetch_fails

\* a run ended whose first MaxExtra fetches had failed
C5_Witness ==
    /\ pc = "done" /\ write_fails = 0 /\ ~late_fail
    /\ fetch_fails = MaxExtra
    /\ Len(written) = num_files

\* the call of the fetcher is over: it returned or raised
FetchOver == pc = "returned" \/ raised = "fetch"
\* the requests made at a line of the fetcher during the call
CallsAt(lines) == {i \in DOMAIN calls : calls[i].line \in lines}

\* C6: when a lookup is ambiguous, the page and summary lookups are retried
\* exactly once, with the first listed candidate; when the retry fails for any
\* reason the call returns None without a further retry.
C6_RetryOnceWithFirstCandidate ==
    (FetchOver /\ e # <<>>) =>
        /\ pc = "returned"
        /\ e[1] # <<>>
        /\ Cardinality(CallsAt({26})) = 1
        /\ \A i \in CallsAt({26}) :
              Cardinality(CallsAt({27})) = IF calls[i].outcome = "ok" THEN 1 ELSE 0
        /\ \A i \in CallsAt({26, 27}) :
              /\ calls[i].title = e[1][1]
              /\ \A j \in CallsAt({12, 15, 16}) : j < i
              /\ calls[i].outcome # "ok" => i = Len(calls) /\ result = None

\* C7: when create_wiki_files returns, the files this run left in the output
\* folder are exactly the num_files counted ones: a failed write leaves nothing.
C7_OnlyCountedFilesLeft ==
    pc = "done" =>
        /\ files_created = num_files
        /\ \A n \in touched : n \in Range(written)
        /\ Cardinality(touched) = files_created

\* C8: on an output folder that exists already the creation of the folder is
\* skipped, and a write under the name of a file found there replaces that
\* file's content by the new summary and is counted like any other write.
C8_RerunOverwrites ==
    [][/\ (pc = "start" /\ dir_exists) =>
              (pc' = "loop" /\ dir_exists' /\ fs' = fs)
       /\ (pc = "write" /\ file_name \in DOMAIN found.files /\ written' # written) =>
              /\ fs'[file_name] = logical_content
              /\ \A n \in DOMAIN fs' : n \in DOMAIN fs /\ (n # file_name => fs'[n] = fs[n])
              /\ written' = Append(written, file_name)
              /\ files_created' = files_created
              /\ files_created' = Len(written')
              /\ pc' = "loop"]_vars

\* a file left by an earlier run has been written again and counted
C8_Witness ==
    /\ found.exists /\ OldFile \in DOMAIN found.files
    /\ OldFile \in Range(written)
    /\ fs[OldFile] \in env.summaries /\ fs[OldFile] # found.files[OldFile]
    /\ files_created = Len(written)

\* C9: the sentence count of a call of the fetcher lies in 4..7, and every
\* summary request of the call, first try or retry, asks for exactly that count.
C9_SentenceCount ==
    pc \in {"random", "page", "summary", "retry_page", "retry_summary", "returned"} =>
        /\ num_sentences \in MinSentences..MaxSentences
        /\ \A i \in CallsAt({16, 27}) : calls[i].sentences = num_sentences

\* a call returned an article after a summary request in the first try and one
\* in the retry, with the largest sentence count
C9_Witness ==
    /\ pc = "returned" /\ result # None
    /\ num_sentences = MaxSentences
    /\ CallsAt({16}) # {} /\ CallsAt({27}) # {}

\* C10 as stated: files_created never exceeds the number of files written.
C10_CountedOnlyAfterWrite == files_created <= Len(written)

\* the file of the iteration is being opened or written, or an exception other
\* than IOError has left create_wiki_files from there
FilePending == pc \in {"open", "write"} \/ raised \in {"open", "write"}

\* C10 amended: every iteration adds exactly one to attempts; files_created is
\* one above the number of files written while the file of the iteration is
\* pending, and equal to it in every other state.
C10_CountedTentatively ==
    /\ [][/\ (pc = "loop" /\ pc' = "random") => attempts' = attempts + 1
          /\ ~(pc = "loop" /\ pc' = "random") => attempts' = attempts]_vars
    /\ [](files_created = Len(written) + (IF FilePending THEN 1 ELSE 0))

\* back at the loop condition after a failed write and a successful one
C10_Witness ==
    /\ pc = "loop" /\ write_fails > 0 /\ Len(written) > 0
    /\ files_created = Len(written)

\* the fetcher is running
InFetcher == pc \in {"random", "page", "summary", "retry_page", "retry_summary"}

\* C11: an iteration whose fetch returns no article adds one to attempts and
\* changes nothing else: neither files_created, nor the files of the output
\* folder and their contents, nor the progress lines.
C11_FailedFetchOnlyCountsAttempt ==
    [][((pc = "loop" /\ pc' = "random") \/ InFetcher \/ (pc = "returned" /\ result = None)) =>
          /\ attempts' = attempts + (IF pc = "loop" THEN 1 ELSE 0)
          /\ UNCHANGED <<files_created, num_files, dir_exists, fs, touched, written,
                         progress, report>>
          /\ (pc = "returned" => pc' = "loop")]_vars

\* back at the loop condition after a fetch returned None behind a written file
C11_Witness ==
    /\ pc = "loop" /\ late_fail /\ fetch_fails > 0
    /\ Len(written) > 0 /\ write_fails = 0
    /\ attempts = files_created + fetch_fails

\* C12: the progress lines are exactly one line for each written file whose
\* index is a multiple of 10, in order, carrying that index and the title of
\* the file written under it; failed fetches and failed writes add none.
C12_ProgressEveryTenth ==
    /\ progress = [k \in 1..(Len(written) \div ProgressEvery) |->
                      <<k * ProgressEvery, topics[k * ProgressEvery]>>]
    /\ Len(topics) = Len(written)
    /\ pc = "done" => Len(progress) = num_files \div ProgressEvery

\* a run ended in which the write of the 10th file had failed once and a fetch
\* had returned None
C12_Witness ==
    /\ pc = "done" /\ tenth_failed /\ fetch_fails > 0
    /\ Len(written) >= ProgressEvery
    /\ Len(progress) = 1 /\ progress[1][1] = ProgressEvery

\* the base of a title, character by character: '(' and ')' are dropped, a
\* space and '/' become '_', and at most BaseLimit characters are kept
ExpectedBase(title) ==
    LET kept == SelectSeq(title, LAMBDA c : c \notin {"(", ")"})
        n == IF Len(kept) < BaseLimit THEN Len(kept) ELSE BaseLimit
    IN [i \in 1..n |-> IF kept[i] \in {" ", "/"} THEN "_" ELSE kept[i]]

\* C13: the file name is <index>_<base>_<suffix>.txt: index is the ordinal of
\* the file among the files created in the run in at least 3 zero-padded
\* digits, suffix is 4 decimal digits, and base is the title with spaces and
\* '/' turned into '_', '(' and ')' removed, cut to its first 30 characters.
C13_FileNameFormat ==
    pc \in {"open", "write"} =>
        LET n == Len(file_name)
            index == IndexField(file_name)
            k == Len(index)
            base == SubSeq(file_name, k + 2, n - SuffixLen - 5)
            suffix == SubSeq(file_name, n - SuffixLen - 3, n - 4)
        IN /\ RendersIndex(index, Len(written) + 1)
           /\ index = SubSeq(file_name, 1, k) /\ file_name[k + 1] = "_"
           /\ file_name[n - SuffixLen - 4] = "_"
           /\ SubSeq(file_name, n - 3, n) = <<".", "t", "x", "t">>
           /\ Len(suffix) = SuffixLen /\ \A i \in 1..Len(suffix) : IsDigit(suffix[i])
           /\ base = ExpectedBase(topic)
           /\ Len(base) <= BaseLimit
           /\ \A i \in 1..Len(base) : base[i] \notin {" ", "(", ")", "/"}

\* a file is named after a title that is still longer than 30 characters once
\* its parentheses are removed
C13_Witness ==
    /\ pc = "open"
    /\ Len(topic) > BaseLimit /\ \E i \in 1..Len(topic) : topic[i] = "("
    /\ Len(file_name) = IndexWidth + 1 + BaseLimit + 1 + SuffixLen + 4

\* what follows the index in a file name
AfterIndex(name) == SubSeq(name, Len(IndexField(name)) + 1, Len(name))

\* C14: no open or write of a run targets a file the run has counted: the
\* index of the attempted name differs from the index of every counted file,
\* and no step changes or removes a counted file.
C14_CountedFilesUntouched ==
    /\ [](pc \in {"open", "write"} =>
            \A i \in 1..Len(written) :
                /\ file_name # written[i]
                /\ IndexField(file_name) # IndexField(written[i]))
    /\ [][\A i \in 1..Len(written) :
             written[i] \in DOMAIN fs' /\ fs'[written[i]] = fs[written[i]]]_vars

\* after a failed write, a file is open whose title and suffix are those of a
\* counted file
C14_Witness ==
    /\ pc = "write" /\ write_fails > 0
    /\ \E i \in 1..Len(written) : AfterIndex(written[i]) = AfterIndex(file_name)

\* C15: files_created stays within 0..num_files and never exceeds attempts; at
\* every evaluation of the loop condition, and in the final report, attempts is
\* files_created plus the failed fetches plus the failed writes.
C15_AttemptsAccounting ==
    /\ 0 <= files_created /\ files_created <= num_files
    /\ files_created <= attempts
    /\ pc \in {"loop", "done"} => attempts = files_created + fetch_fails + write_fails
    /\ pc = "done" => report = <<files_created, files_created + fetch_fails + write_fails>>

\* the final report of a run with failed fetches and failed writes
C15_Witness ==
    /\ pc = "done" /\ fetch_fails > 0 /\ write_fails > 0
    /\ report = <<num_files, num_files + MaxExtra>>

====
